---- MODULE Spec2Model ----
(***************************************************************************)
(* Host-side trace reconstruction of tracing-defmt: TraceStream            *)
(* (decoder/src/lib.rs) consumes the bytes of a defmt stream, decodes      *)
(* frames, classifies each rendered frame as span enter / span exit /      *)
(* plain log, keeps the stack of open spans and reports spans and events   *)
(* to the tracing subscriber.                                              *)
(*                                                                         *)
(* Text is modelled as a sequence of one-character strings, so that        *)
(* str::find and slicing are computed character by character.              *)
(***************************************************************************)
EXTENDS Integers, Sequences, FiniteSets, TLC

\* ------------------------------------------------------------------ bounds

\* Wire items (record frames or corrupt bytes) the device produces in Spec.
MaxItems == 5

\* process calls that each carry one whole record in SpecFrame.
MaxFrames == 3

\* Records of the well-formed sequence that follows a malformed one.
MaxWellFormed == 4

\* Records given to both reconstructors in SpecScope.
MaxLines == 5

\* Calls of instrumented functions the device program makes in SpecDevice.
MaxCalls == 4

\* Lines the recursive reconstructor reads from its input in SpecStdin.
MaxStdin == 4

\* ------------------------------------------------------------------- text

SpanEnterLit == <<"s","p","a","n","_","e","n","t","e","r",":"," ">>

SpanExitLit == <<"s","p","a","n","_","e","x","i","t",":"," ">>

FileSuffixLit == <<";"," ","f","i","l","e","=">>

\* str::find: Some(0-based index of the first occurrence of needle), or None.
Find(hay, needle) ==
    LET starts == {i \in 0..(Len(hay) - Len(needle)) :
                      SubSeq(hay, i + 1, i + Len(needle)) = needle}
    IN  IF starts = {} THEN [some |-> FALSE, at |-> 0]
        ELSE [some |-> TRUE, at |-> CHOOSE i \in starts : \A j \in starts : i <= j]

\* &s[from..]: the slice from 0-based index from to the end.
SliceFrom(s, from) == SubSeq(s, from + 1, Len(s))

\* &s[..to]: the slice of the first to characters.
SliceTo(s, to) == SubSeq(s, 1, to)

\* ------------------------------------------------- frames and the table

\* A decoded frame: its format index, the text frame.display(false) renders,
\* and seq, the position at which the device emitted it (a ghost tag that
\* lets the properties follow one record through the stream).
Frame(idx, text, seq) == [idx |-> idx, text |-> text, seq |-> seq]

NoFrame == [idx |-> 0, text |-> <<>>, seq |-> 0]

\* TraceDecoder.locations: format index -> Location, absent for some.
LocatedIdx == {1, 2, 3, 4, 7, 21, 22, 23}

Location(idx) ==
    [file |-> IF idx \in {1, 2} THEN "main.rs" ELSE "lib.rs",
     line |-> 10 * idx,
     module |-> IF idx \in {1, 2} THEN "app" ELSE "app::util"]

\* The records of the streaming specification: [idx, text].
StreamRecords ==
    { [idx |-> 1, text |-> SpanEnterLit \o <<"f">>],
      [idx |-> 4, text |-> SpanExitLit \o <<"f">>],
      [idx |-> 7, text |-> <<"h","i">>] }

\* The records of the frame-level specification: every shape of rendered
\* text the classification and the name clean-up distinguish.
FrameRecords ==
    { [idx |-> 1, text |-> SpanEnterLit \o <<"f">>],
      [idx |-> 2, text |-> SpanEnterLit \o <<"g","(","a",")">>],
      [idx |-> 3, text |-> SpanEnterLit \o <<"f">> \o FileSuffixLit \o <<"m">>],
      [idx |-> 4, text |-> SpanExitLit \o <<"f">>],
      [idx |-> 5, text |-> SpanExitLit \o <<"g">>],
      [idx |-> 6, text |-> SpanExitLit],
      [idx |-> 7, text |-> <<"h","i">>],
      [idx |-> 8, text |-> <<"I"," ">> \o SpanEnterLit \o <<"f">>],
      [idx |-> 9, text |-> <<"I"," ">> \o SpanExitLit \o <<"f">>],
      [idx |-> 10, text |-> SpanExitLit \o SpanEnterLit \o <<"g">>],
      [idx |-> 11, text |-> SpanEnterLit \o SpanExitLit \o <<"f">>],
      [idx |-> 12, text |-> <<"s","p","a","n","_","e","n","t","e","r",":","f">>],
      [idx |-> 13, text |-> <<>>],
      [idx |-> 14, text |-> SpanEnterLit \o <<"g","(","a",")">> \o FileSuffixLit
                              \o <<"m">> \o FileSuffixLit \o <<"n">>] }

\* ------------------------------------------------------------ the wire

\* One unit of the byte stream: the frame delimiter, the encoded body of one
\* record (an indivisible run of non-zero bytes), or a corrupt byte that no
\* encoding of a record contains.
ZeroByte == [b |-> "zero", frame |-> NoFrame]

BadByte == [b |-> "bad", frame |-> NoFrame]

BodyByte(f) == [b |-> "body", frame |-> f]

Encode(f) == <<BodyByte(f), ZeroByte>>

\* --------------------------------------------- the end-to-end scenario

\* The texts of tests/reconstruction.rs (and of examples/basic.rs).
MyFunctionCall ==
    <<"m","y","_","f","u","n","c","t","i","o","n","(","x","=","1","0",
      ","," ","y","=","2","0",")">>

NestedCallCall ==
    <<"n","e","s","t","e","d","_","c","a","l","l","(","v","a","l","u",
      "e","=","3","0",")">>

MyFunctionName ==
    <<"m","y","_","f","u","n","c","t","i","o","n">>

NestedCallName ==
    <<"n","e","s","t","e","d","_","c","a","l","l">>

EnteredText ==
    <<"E","n","t","e","r","e","d"," ","m","y","_","f","u","n","c","t",
      "i","o","n"," ","w","i","t","h"," ","x","=","1","0",","," ","y",
      "=","2","0">>

InsideText ==
    <<"I","n","s","i","d","e"," ","n","e","s","t","e","d","_","c","a",
      "l","l"," ","w","i","t","h"," ","v","a","l","u","e","=","3","0">>

WarningText ==
    <<"T","h","i","s"," ","i","s"," ","a"," ","w","a","r","n","i","n",
      "g"," ","i","n","s","i","d","e"," ","t","h","e"," ","f","u","n",
      "c","t","i","o","n">>

\* The seven records of the scenario, in the order the device emits them.
ScenarioRecords ==
    << [idx |-> 21, text |-> SpanEnterLit \o MyFunctionCall],
       [idx |-> 22, text |-> EnteredText],
       [idx |-> 23, text |-> SpanEnterLit \o NestedCallCall],
       [idx |-> 24, text |-> InsideText],
       [idx |-> 25, text |-> SpanExitLit \o NestedCallName],
       [idx |-> 26, text |-> WarningText],
       [idx |-> 27, text |-> SpanExitLit \o MyFunctionName] >>

RECURSIVE EncodeAll(_, _)
\* The bytes of the records rs, the first of them tagged seq from + 1.
EncodeAll(rs, from) ==
    IF rs = <<>> THEN <<>>
    ELSE Encode(Frame(rs[1].idx, rs[1].text, from + 1))
            \o EncodeAll(SubSeq(rs, 2, Len(rs)), from + 1)

\* The seq tags of the records whose body lies in a run of bytes.
FrameSeqs(bytes) ==
    {bytes[i].frame.seq : i \in {j \in DOMAIN bytes : bytes[j].b = "body"}}

\* Table::new_stream_decoder: a decoder with nothing buffered.
NewStreamDecoder == [some |-> TRUE, raw |-> <<>>]

\* Option::None in the place of a decoder.
NoDecoder == [some |-> FALSE, raw |-> <<>>]

\* StreamDecoder::received
Received(dec, data) == [dec EXCEPT !.raw = @ \o data]

\* StreamDecoder::decode: the next complete frame, UnexpectedEof when no
\* delimiter is buffered, Malformed when the bytes before the delimiter are
\* not the encoding of one record. rest is the decoder after the call.
Decode(dec) ==
    LET raw == dec.raw
        zeros == {i \in DOMAIN raw : raw[i].b = "zero"}
    IN  IF zeros = {}
        THEN [kind |-> "UnexpectedEof", frame |-> NoFrame, rest |-> dec]
        ELSE LET z == CHOOSE i \in zeros : \A j \in zeros : i <= j
                 body == SubSeq(raw, 1, z - 1)
                 rest == [dec EXCEPT !.raw = SubSeq(raw, z + 1, Len(raw))]
             IN  IF Len(body) = 1 /\ body[1].b = "body"
                 THEN [kind |-> "Ok", frame |-> body[1].frame, rest |-> rest]
                 ELSE [kind |-> "Malformed", frame |-> NoFrame, rest |-> rest]

\* ------------------------------------------------------------ the state

VARIABLES
    wire,            \* bytes the device has written and the host has not yet read
    emitted,         \* wire items produced so far
    stream_decoder,  \* TraceStream.stream_decoder: Some(decoder) or None
    decoder,         \* the local `decoder` of process, NoDecoder outside a call
    span_stack,      \* TraceStream.span_stack: handles of the open spans
    pc,              \* where process stands: idle, loop, break, panic
    ret,             \* what the last finished process call returned
    sink,            \* calls received by the tracing subscriber, in order
    stderr,          \* lines written with eprintln!
    last,            \* ghost: the frame handle_frame handled last
    call,            \* ghost: what the current (or last) process call did
    lost,            \* ghost: seq tags of records in discarded decoders
    handled,         \* ghost: the records handled, in order, with their kind
    fed,             \* ghost: all bytes passed to process so far, in order
    trace_decoder,   \* what TraceDecoder::new returned
    device,          \* the instrumented program on the device: its call stack
                     \* and (ghost) the records it has logged
    stdin            \* the lines the recursive reconstructor has been given

vars == <<wire, emitted, stream_decoder, decoder, span_stack, pc, ret,
          sink, stderr, last, call, lost, handled, fed, trace_decoder,
          device, stdin>>

\* No span: the None of span_stack.last(), and the id of a call that names
\* no span. The subscriber's span ids start at 1.
NoSpan == 0

\* The device before its program has called an instrumented function.
NoDevice == [stack |-> <<>>, acts |-> 0, log |-> <<>>]

NoLast == [kind |-> "none", text |-> <<>>, rest |-> <<>>, before |-> <<>>,
           sinkBefore |-> 0]

NewCall == [trace |-> <<>>, malformed |-> FALSE, stackAtMalformed |-> <<>>,
            sinkAtMalformed |-> 0, handledAtMalformed |-> 0, data |-> <<>>]

\* A debug image as TraceDecoder::new sees it: what Table::parse makes of it
\* (an error, no defmt table, a table) and whether get_locations succeeds.
ElfImages == [parse : {"err", "none", "table"}, locs : {"err", "ok"}]

GoodElf == [parse |-> "table", locs |-> "ok"]

\* The value TraceDecoder::new returns: Ok(Self {table, locations}) or
\* Err(Error::Elf(msg)); elf_data is a ghost, the image it was given.
NewResult(elf_data, ok, msg) ==
    [ok |-> ok, err |-> IF ok THEN "" ELSE "Elf", msg |-> msg,
     table |-> ok, locations |-> ok, elf_data |-> elf_data]

\* A TraceDecoder::new that goes on without locations when they cannot be
\* read.
TraceDecoderNew_lenient(elf_data) ==
    IF elf_data.parse = "err"
    THEN NewResult(elf_data, FALSE, "parse")
    ELSE IF elf_data.parse = "none"
    THEN NewResult(elf_data, FALSE, "No defmt table found")
    ELSE [NewResult(elf_data, TRUE, "") EXCEPT !.locations = elf_data.locs = "ok"]

\* TraceDecoder::new: Err(Error::Elf) when parsing fails, when there is no
\* table, when the locations cannot be read; Ok(Self {table, locations})
\* otherwise.
TraceDecoderNew(elf_data) ==
    IF elf_data.parse = "err"
    THEN NewResult(elf_data, FALSE, "parse")
    ELSE IF elf_data.parse = "none"
    THEN NewResult(elf_data, FALSE, "No defmt table found")
    ELSE IF elf_data.locs = "err"
    THEN NewResult(elf_data, FALSE, "Locs")
    ELSE NewResult(elf_data, TRUE, "")

\* TraceDecoder::new_stream: a decoder from the table, an empty span stack.
new_stream ==
    /\ stream_decoder = NewStreamDecoder
    /\ span_stack = <<>>

Init ==
    /\ new_stream
    /\ wire = <<>>
    /\ emitted = 0
    /\ decoder = NoDecoder
    /\ pc = "idle"
    /\ ret = "none"
    /\ sink = <<>>
    /\ stderr = <<>>
    /\ last = NoLast
    /\ call = NewCall
    /\ lost = {}
    /\ handled = <<>>
    /\ fed = <<>>
    /\ trace_decoder = TraceDecoderNew(GoodElf)
    /\ device = NoDevice
    /\ stdin = <<>>

\* ------------------------------------------------------- the subscriber

\* The id the subscriber gives the next span: ids are handed out in order.
NewId(s) == 1 + Cardinality({i \in DOMAIN s : s[i].op = "begin"})

SinkCall(op, id, parent, name, loc) ==
    [op |-> op, id |-> id, parent |-> parent, name |-> name,
     file |-> loc.file, line |-> loc.line, module |-> loc.module]

NoLoc == [file |-> "", line |-> 0, module |-> ""]

\* A lookup that copies file and line from the table's entry and leaves the
\* module at its default.
Resolve_nomodule(frame) ==
    IF frame.idx \in LocatedIdx
    THEN [Location(frame.idx) EXCEPT !.module = "rp_pico"]
    ELSE [file |-> "", line |-> 0, module |-> "rp_pico"]

\* The location attributes of a frame: the table's entry, or the defaults.
\* (loc.line as i64 keeps every line number below 2^63, and the table's
\* line numbers are those of source files; display() keeps a UTF-8 path.)
Resolve(frame) ==
    IF frame.idx \in LocatedIdx
    THEN Location(frame.idx)
    ELSE [file |-> "", line |-> 0, module |-> "rp_pico"]

\* ---------------------------------------------------------- the handlers

\* The name the subscriber was given for span id in the calls s.
SpanName(s, id) ==
    LET begins == {i \in DOMAIN s : s[i].op = "begin" /\ s[i].id = id}
    IN  IF begins = {} THEN <<>> ELSE s[CHOOSE i \in begins : TRUE].name

\* A handle_span_exit that pops only when the name is that of the top span.
handle_span_exit_named(name) ==
    IF span_stack = <<>> \/ SpanName(sink, span_stack[Len(span_stack)]) # name
    THEN /\ span_stack' = span_stack
         /\ sink' = sink
         /\ stderr' = stderr
         /\ pc' = "loop"
    ELSE /\ span_stack' = SubSeq(span_stack, 1, Len(span_stack) - 1)
         /\ sink' = Append(sink, SinkCall("end", span_stack[Len(span_stack)],
                                          NoSpan, <<>>, NoLoc))
         /\ stderr' = stderr
         /\ pc' = "loop"

\* A handle_span_exit that unwraps the popped span: it panics on an empty
\* stack.
handle_span_exit_unwrap(name) ==
    IF span_stack = <<>>
    THEN /\ span_stack' = span_stack
         /\ sink' = sink
         /\ stderr' = stderr
         /\ pc' = "panic"
    ELSE /\ span_stack' = SubSeq(span_stack, 1, Len(span_stack) - 1)
         /\ sink' = Append(sink, SinkCall("end", span_stack[Len(span_stack)],
                                          NoSpan, <<>>, NoLoc))
         /\ stderr' = stderr
         /\ pc' = "loop"

\* A handle_span_exit that removes the oldest span instead of the newest.
handle_span_exit_oldest(name) ==
    IF span_stack = <<>>
    THEN /\ span_stack' = span_stack
         /\ sink' = sink
         /\ stderr' = stderr
         /\ pc' = "loop"
    ELSE /\ span_stack' = Tail(span_stack)
         /\ sink' = Append(sink, SinkCall("end", Head(span_stack), NoSpan, <<>>, NoLoc))
         /\ stderr' = stderr
         /\ pc' = "loop"

\* A handle_log that attributes the event to the outermost open span.
handle_log_outermost(message, frame) ==
    /\ sink' = Append(sink, SinkCall("event", NoSpan,
                                     IF span_stack = <<>> THEN NoSpan ELSE span_stack[1],
                                     message, Resolve(frame)))
    /\ stderr' = Append(stderr, message)
    /\ span_stack' = span_stack
    /\ pc' = "loop"

\* A handle_span_enter that never links the new span to a parent.
handle_span_enter_root(name, frame) ==
    LET idx == Find(name, FileSuffixLit)
        clean_name == IF idx.some THEN SliceTo(name, idx.at) ELSE name
        span == NewId(sink)
    IN  /\ sink' = Append(sink, SinkCall("begin", span, NoSpan, clean_name, Resolve(frame)))
        /\ span_stack' = Append(span_stack, span)
        /\ stderr' = stderr
        /\ pc' = "loop"

\* A handle_span_enter that names the span by the whole text after the
\* sentinel.
handle_span_enter_verbatim(name, frame) ==
    LET clean_name == name
        loc == Resolve(frame)
        parent_span == IF span_stack = <<>> THEN NoSpan
                       ELSE span_stack[Len(span_stack)]
        span == NewId(sink)
    IN  /\ sink' = Append(sink, SinkCall("begin", span, parent_span, clean_name, loc))
        /\ span_stack' = Append(span_stack, span)
        /\ stderr' = stderr
        /\ pc' = "loop"

\* handle_span_enter: strip a "; file=" suffix from the name, resolve the
\* location, create the span under the span on top of the stack (or as a
\* root), set its attributes and push it. Like every handler it returns to
\* the loop of process, which is what pc' = "loop" says.
handle_span_enter(name, frame) ==
    LET idx == Find(name, FileSuffixLit)
        clean_name == IF idx.some THEN SliceTo(name, idx.at) ELSE name
        loc == Resolve(frame)
        parent_span == IF span_stack = <<>> THEN NoSpan
                       ELSE span_stack[Len(span_stack)]
        span == NewId(sink)
    IN  /\ sink' = Append(sink, SinkCall("begin", span, parent_span, clean_name, loc))
        /\ span_stack' = Append(span_stack, span)
        /\ stderr' = stderr
        /\ pc' = "loop"

\* handle_span_exit: pop the top span, if any; the popped Span is dropped,
\* which closes it. The name is not read.
handle_span_exit(name) ==
    IF span_stack = <<>>
    THEN /\ span_stack' = span_stack
         /\ sink' = sink
         /\ stderr' = stderr
         /\ pc' = "loop"
    ELSE /\ span_stack' = SubSeq(span_stack, 1, Len(span_stack) - 1)
         /\ sink' = Append(sink, SinkCall("end", span_stack[Len(span_stack)],
                                          NoSpan, <<>>, NoLoc))
         /\ stderr' = stderr
         /\ pc' = "loop"

\* A handle_log that records the event and writes nothing to stderr.
handle_log_silent(message, frame) ==
    LET loc == Resolve(frame)
        parent_span == IF span_stack = <<>> THEN NoSpan
                       ELSE span_stack[Len(span_stack)]
    IN  /\ sink' = Append(sink, SinkCall("event", NoSpan, parent_span, message, loc))
        /\ stderr' = stderr
        /\ span_stack' = span_stack
        /\ pc' = "loop"

\* A handle_log that takes the span it logs under off the stack.
handle_log_pop(message, frame) ==
    LET loc == Resolve(frame)
        parent_span == IF span_stack = <<>> THEN NoSpan
                       ELSE span_stack[Len(span_stack)]
    IN  /\ sink' = Append(sink, SinkCall("event", NoSpan, parent_span, message, loc))
        /\ stderr' = Append(stderr, message)
        /\ span_stack' = SubSeq(span_stack, 1, Len(span_stack) - 1)
        /\ pc' = "loop"

\* handle_log: resolve the location, record the event under the span on top
\* of the stack (or under none), and mirror the message to stderr.
handle_log(message, frame) ==
    LET loc == Resolve(frame)
        parent_span == IF span_stack = <<>> THEN NoSpan
                       ELSE span_stack[Len(span_stack)]
    IN  /\ sink' = Append(sink, SinkCall("event", NoSpan, parent_span, message, loc))
        /\ stderr' = Append(stderr, message)
        /\ span_stack' = span_stack
        /\ pc' = "loop"

Handled(kind, frame, rest) ==
    [kind |-> kind, text |-> frame.text, rest |-> rest, before |-> span_stack,
     sinkBefore |-> Len(sink)]

\* A handle_frame that looks for the exit sentinel before the enter sentinel.
handle_frame_exit_first(frame) ==
    LET message == frame.text
        enterIdx == Find(message, SpanEnterLit)
        exitIdx == Find(message, SpanExitLit)
    IN  \/ /\ exitIdx.some
           /\ LET rest == SliceFrom(message, exitIdx.at + Len(SpanExitLit))
              IN  /\ handle_span_exit(rest)
                  /\ last' = Handled("exit", frame, rest)
        \/ /\ ~exitIdx.some
           /\ enterIdx.some
           /\ LET rest == SliceFrom(message, enterIdx.at + Len(SpanEnterLit))
              IN  /\ handle_span_enter(rest, frame)
                  /\ last' = Handled("enter", frame, rest)
        \/ /\ ~enterIdx.some
           /\ ~exitIdx.some
           /\ handle_log(message, frame)
           /\ last' = Handled("log", frame, message)

\* handle_frame: render the frame and dispatch on the first sentinel found.
handle_frame(frame) ==
    LET message == frame.text
        enterIdx == Find(message, SpanEnterLit)
        exitIdx == Find(message, SpanExitLit)
    IN  \/ /\ enterIdx.some
           /\ LET rest == SliceFrom(message, enterIdx.at + Len(SpanEnterLit))
              IN  /\ handle_span_enter(rest, frame)
                  /\ last' = Handled("enter", frame, rest)
        \/ /\ ~enterIdx.some
           /\ exitIdx.some
           /\ LET rest == SliceFrom(message, exitIdx.at + Len(SpanExitLit))
              IN  /\ handle_span_exit(rest)
                  /\ last' = Handled("exit", frame, rest)
        \/ /\ ~enterIdx.some
           /\ ~exitIdx.some
           /\ handle_log(message, frame)
           /\ last' = Handled("log", frame, message)

\* ------------------------------------------------------------- process

\* A process that starts every call with a new decoder: what an earlier call
\* left buffered is gone.
process_enter_fresh(data) ==
    /\ pc = "idle"
    /\ IF ~stream_decoder.some
       THEN /\ pc' = "panic"
            /\ decoder' = decoder
       ELSE /\ pc' = "loop"
            /\ decoder' = Received(NewStreamDecoder, data)
    /\ stream_decoder' = NoDecoder
    /\ ret' = "pending"
    /\ call' = [NewCall EXCEPT !.data = data]
    /\ fed' = fed \o data
    /\ UNCHANGED <<span_stack, sink, stderr, last, lost, handled, trace_decoder, device, stdin>>

\* process(data), entry: take the decoder out of the stream and feed it.
process_enter(data) ==
    /\ pc = "idle"
    /\ IF ~stream_decoder.some
       THEN /\ pc' = "panic"
            /\ decoder' = decoder
       ELSE /\ pc' = "loop"
            /\ decoder' = Received(stream_decoder, data)
    /\ stream_decoder' = NoDecoder
    /\ ret' = "pending"
    /\ call' = [NewCall EXCEPT !.data = data]
    /\ fed' = fed \o data
    /\ UNCHANGED <<span_stack, sink, stderr, last, lost, handled, trace_decoder, device, stdin>>

\* The host reads some of the bytes on the wire and calls process on them.
ProcessCall ==
    \E n \in 0..Len(wire) :
        /\ process_enter(SubSeq(wire, 1, n))
        /\ wire' = SubSeq(wire, n + 1, Len(wire))
        /\ emitted' = emitted

\* The host calls process on the bytes of one whole record.
ProcessRecord ==
    \E r \in FrameRecords :
        /\ emitted < MaxFrames
        /\ process_enter(Encode(Frame(r.idx, r.text, emitted + 1)))
        /\ emitted' = emitted + 1
        /\ wire' = wire

\* One turn of the loop, decode() = Ok(frame): handle the frame; the handler
\* returns to the loop (pc).
StepFrame ==
    /\ pc = "loop"
    /\ LET r == Decode(decoder)
       IN  /\ r.kind = "Ok"
           /\ decoder' = r.rest
           /\ handle_frame(r.frame)
           /\ handled' = Append(handled, [seq |-> r.frame.seq, kind |-> last'.kind,
                                          idx |-> r.frame.idx, text |-> r.frame.text])
           /\ call' = [call EXCEPT !.trace =
                          Append(@, [kind |-> last'.kind, depth |-> Len(span_stack)])]
    /\ UNCHANGED <<wire, emitted, stream_decoder, ret, lost, fed, trace_decoder, device, stdin>>

\* A loop that may break before the decoder has run dry.
StepEof_early ==
    /\ pc = "loop"
    /\ Decode(decoder).kind \in {"UnexpectedEof", "Ok"}
    /\ pc' = "break"
    /\ UNCHANGED <<wire, emitted, stream_decoder, decoder, span_stack, ret,
                   sink, stderr, last, call, lost, handled, fed, trace_decoder,
                   device, stdin>>

\* decode() = Err(UnexpectedEof): leave the loop.
StepEof ==
    /\ pc = "loop"
    /\ Decode(decoder).kind = "UnexpectedEof"
    /\ pc' = "break"
    /\ UNCHANGED <<wire, emitted, stream_decoder, decoder, span_stack, ret,
                   sink, stderr, last, call, lost, handled, fed, trace_decoder,
                   device, stdin>>

\* The line process writes to stderr when the stream is malformed.
MalformedDiag == <<"Defmt stream malformed. Resetting decoder...">>

\* An on_malformed that keeps the old decoder and what it still buffers.
on_malformed_keep ==
    /\ stderr' = Append(stderr, MalformedDiag)
    /\ decoder' = Decode(decoder).rest
    /\ pc' = "break"
    /\ UNCHANGED <<span_stack, sink>>

\* An on_malformed that also closes every open span, innermost first.
on_malformed_close_all ==
    /\ stderr' = Append(stderr, MalformedDiag)
    /\ decoder' = NewStreamDecoder
    /\ pc' = "break"
    /\ span_stack' = <<>>
    /\ sink' = sink \o [i \in 1..Len(span_stack) |->
                           SinkCall("end", span_stack[Len(span_stack) + 1 - i],
                                    NoSpan, <<>>, NoLoc)]

\* What process does on Err(Malformed): report, replace the decoder by a
\* new one from the table, leave the loop.
on_malformed ==
    /\ stderr' = Append(stderr, MalformedDiag)
    /\ decoder' = NewStreamDecoder
    /\ pc' = "break"
    /\ span_stack' = span_stack
    /\ sink' = sink

StepMalformed ==
    /\ pc = "loop"
    /\ Decode(decoder).kind = "Malformed"
    /\ on_malformed
    /\ lost' = lost \cup FrameSeqs(decoder.raw)
    /\ call' = [call EXCEPT !.malformed = TRUE,
                            !.stackAtMalformed = span_stack,
                            !.sinkAtMalformed = Len(sink),
                            !.handledAtMalformed = Len(handled)]
    /\ UNCHANGED <<wire, emitted, stream_decoder, ret, last, handled, fed,
                   trace_decoder, device, stdin>>

\* A process_return that hands a Malformed of this call to the caller.
process_return_propagate ==
    /\ stream_decoder' = decoder
    /\ decoder' = NoDecoder
    /\ ret' = IF call.malformed THEN "Err" ELSE "Ok"

\* A process that returns without putting the decoder back.
process_return_forget ==
    /\ stream_decoder' = NoDecoder
    /\ decoder' = NoDecoder
    /\ ret' = "Ok"

\* A process that has left on Malformed before the decoder is put back.
process_return_early ==
    /\ stream_decoder' = IF call.malformed THEN NoDecoder ELSE decoder
    /\ decoder' = NoDecoder
    /\ ret' = "Ok"

\* After the loop: put the decoder back and return Ok(()).
process_return ==
    /\ stream_decoder' = decoder
    /\ decoder' = NoDecoder
    /\ ret' = "Ok"

ProcessReturn ==
    /\ pc = "break"
    /\ process_return
    /\ pc' = "idle"
    /\ UNCHANGED <<wire, emitted, span_stack, sink, stderr, last, call, lost, handled,
                   fed, trace_decoder, device, stdin>>

\* ----------------------------------------------------------- the device

\* The device writes the frame of one record.
Emit ==
    \E r \in StreamRecords :
        /\ emitted < MaxItems
        /\ wire' = wire \o Encode(Frame(r.idx, r.text, emitted + 1))
        /\ emitted' = emitted + 1
        /\ UNCHANGED <<stream_decoder, decoder, span_stack, pc, ret, sink,
                       stderr, last, call, lost, handled, fed, trace_decoder,
                   device, stdin>>

\* The link corrupts the stream: a byte that belongs to no frame arrives.
Corrupt ==
    /\ emitted < MaxItems
    /\ wire' = Append(wire, BadByte)
    /\ emitted' = emitted + 1
    /\ UNCHANGED <<stream_decoder, decoder, span_stack, pc, ret, sink,
                   stderr, last, call, lost, handled, fed, trace_decoder,
                   device, stdin>>

\* ---------------------------------------------------- the specifications

\* The streaming specification: a device, a lossy link, a host that reads
\* the stream in chunks of any size.
Next ==
    \/ Emit
    \/ Corrupt
    \/ ProcessCall
    \/ StepFrame
    \/ StepEof
    \/ StepMalformed
    \/ ProcessReturn

Spec == Init /\ [][Next]_vars

\* The frame-level specification: process is called on one whole record at
\* a time, the record drawn from FrameRecords.
NextFrame ==
    \/ ProcessRecord
    \/ StepFrame
    \/ StepEof
    \/ ProcessReturn

SpecFrame == Init /\ [][NextFrame]_vars

\* The end-to-end scenario: the device has written the seven records; the
\* host reads them in chunks of any size.
InitE2E ==
    /\ new_stream
    /\ wire = EncodeAll(ScenarioRecords, 0)
    /\ emitted = Len(ScenarioRecords)
    /\ decoder = NoDecoder
    /\ pc = "idle"
    /\ ret = "none"
    /\ sink = <<>>
    /\ stderr = <<>>
    /\ last = NoLast
    /\ call = NewCall
    /\ lost = {}
    /\ handled = <<>>
    /\ fed = <<>>
    /\ trace_decoder = TraceDecoderNew(GoodElf)
    /\ device = NoDevice
    /\ stdin = <<>>

NextE2E ==
    \/ ProcessCall
    \/ StepFrame
    \/ StepEof
    \/ ProcessReturn

SpecE2E == InitE2E /\ [][NextE2E]_vars

\* ------------------------------------------- the stream as a function

\* The fields of a TraceStream its handlers write, and what they send out.
FreshStream == [span_stack |-> <<>>, sink |-> <<>>, stderr |-> <<>>]

\* handle_frame with the handler it dispatches to, as a function of the
\* stream: the stream after one frame.
AfterFrame(st, frame) ==
    LET message == frame.text
        enterIdx == Find(message, SpanEnterLit)
        exitIdx == Find(message, SpanExitLit)
        parent_span == IF st.span_stack = <<>> THEN NoSpan
                       ELSE st.span_stack[Len(st.span_stack)]
    IN  IF enterIdx.some
        THEN LET name == SliceFrom(message, enterIdx.at + Len(SpanEnterLit))
                 idx == Find(name, FileSuffixLit)
                 clean_name == IF idx.some THEN SliceTo(name, idx.at) ELSE name
                 span == NewId(st.sink)
             IN  [st EXCEPT !.sink = Append(@, SinkCall("begin", span, parent_span,
                                                        clean_name, Resolve(frame))),
                            !.span_stack = Append(@, span)]
        ELSE IF exitIdx.some
        THEN IF st.span_stack = <<>>
             THEN st
             ELSE [st EXCEPT !.sink = Append(@, SinkCall("end", parent_span, NoSpan,
                                                         <<>>, NoLoc)),
                             !.span_stack = SubSeq(@, 1, Len(@) - 1)]
        ELSE [st EXCEPT !.sink = Append(@, SinkCall("event", NoSpan, parent_span,
                                                    message, Resolve(frame))),
                        !.stderr = Append(@, message)]

RECURSIVE AfterFrames(_, _)
\* The stream after the frames fs, handled in order.
AfterFrames(st, fs) ==
    IF fs = <<>> THEN st
    ELSE AfterFrames(AfterFrame(st, Head(fs)), Tail(fs))

RECURSIVE Drain(_, _)
\* The loop of process as a function: the stream and the decoder at the
\* break.
Drain(st, dec) ==
    LET r == Decode(dec)
    IN  IF r.kind = "Ok"
        THEN Drain(AfterFrame(st, r.frame), r.rest)
        ELSE IF r.kind = "UnexpectedEof"
        THEN [st |-> st, dec |-> dec]
        ELSE [st |-> [st EXCEPT !.stderr = Append(@, MalformedDiag)],
              dec |-> NewStreamDecoder]

\* One call process(data) on a fresh TraceStream.
FreshProcess(data) == Drain(FreshStream, Received(NewStreamDecoder, data))

\* The frame a handled record was.
FrameOf(h) == Frame(h.idx, h.text, h.seq)

\* The frames handled so far, in order.
HandledFrames == [i \in DOMAIN handled |-> FrameOf(handled[i])]

\* ------------------------------------------ the recursive reconstructor

\* str::trim_start and str::trim_end, for the one whitespace character the
\* texts of the model contain.
RECURSIVE TrimStart(_)
TrimStart(t) ==
    IF t # <<>> /\ Head(t) = " " THEN TrimStart(Tail(t)) ELSE t

RECURSIVE TrimEnd(_)
TrimEnd(t) ==
    IF t # <<>> /\ t[Len(t)] = " " THEN TrimEnd(SubSeq(t, 1, Len(t) - 1)) ELSE t

\* str::trim
Trim(t) == TrimEnd(TrimStart(t))

\* A call the recursive reconstructor makes to the subscriber: span! with
\* the fields function and args under the span entered at the moment, the
\* drop of the guard and the span, info! under the span entered.
ScopeCall(op, id, parent, name, args) ==
    [op |-> op, id |-> id, parent |-> parent, name |-> name, args |-> args]

\* The split of "function_name(arg=val, ...)" into name and args. The slice
\* &content[idx + 1..end] with end = content.len() - 1 panics when it starts
\* behind its end: when the first '(' is the last character.
SplitCall(content) ==
    LET idx == Find(content, <<"(">>)
        end == IF Len(content) = 0 THEN 0 ELSE Len(content) - 1
    IN  IF ~idx.some
        THEN [panic |-> FALSE, name |-> content, args |-> <<>>]
        ELSE IF idx.at + 1 > end
        THEN [panic |-> TRUE, name |-> <<>>, args |-> <<>>]
        ELSE [panic |-> FALSE, name |-> SliceTo(content, idx.at),
              args |-> SubSeq(content, idx.at + 2, end)]

\* A guard that is forgotten instead of dropped: the span stays entered.
guard_drop_forget(out, span) == out

\* _guard goes out of scope when the nested process_scope has returned: the
\* span is exited and, created in the same scope, closed.
guard_drop(out, span) ==
    Append(out, ScopeCall("end", span, NoSpan, <<>>, <<>>))

RECURSIVE process_scope(_, _, _)
\* process_scope of examples/host_trace_reconstructor.rs, called with the
\* lines not yet read, the calls made so far and the span entered at the
\* moment: the lines left, the calls made and whether it panicked when it
\* returns. An enter line creates a span, enters it and recurses; the
\* guard is dropped when the recursion returns, on an exit line, at the end
\* of the input or while a panic unwinds. An exit line returns.
process_scope(lines, out, current) ==
    IF lines = <<>>
    THEN [lines |-> lines, out |-> out, panic |-> FALSE, exit |-> FALSE]
    ELSE
    LET line == Trim(Head(lines))
        enterIdx == Find(line, SpanEnterLit)
        exitIdx == Find(line, SpanExitLit)
    IN  IF line = <<>>
        THEN process_scope(Tail(lines), out, current)
        ELSE IF enterIdx.some
        THEN LET content == SliceFrom(line, enterIdx.at + Len(SpanEnterLit))
                 parts == SplitCall(content)
                 span == NewId(out)
                 inner == process_scope(Tail(lines),
                              Append(out, ScopeCall("begin", span, current,
                                                    parts.name, parts.args)),
                              span)
                 closed == guard_drop(inner.out, span)
             IN  IF parts.panic
                 THEN [lines |-> Tail(lines), out |-> out, panic |-> TRUE,
                       exit |-> FALSE]
                 ELSE IF inner.panic
                 THEN [lines |-> inner.lines, out |-> closed, panic |-> TRUE,
                       exit |-> FALSE]
                 ELSE process_scope(inner.lines, closed, current)
        ELSE IF exitIdx.some
        THEN [lines |-> Tail(lines), out |-> out, panic |-> FALSE, exit |-> TRUE]
        ELSE process_scope(Tail(lines),
                           Append(out, ScopeCall("event", NoSpan, current, line, <<>>)),
                           current)

\* The records given to both reconstructors: enter directives with a bare
\* name, with arguments, with an unclosed parenthesis and with the legacy
\* suffix, an exit directive with and without a name, a log and a blank.
ScopeRecords ==
    { [idx |-> 1, text |-> SpanEnterLit \o <<"f">>],
      [idx |-> 2, text |-> SpanEnterLit \o <<"g","(","a",")">>],
      [idx |-> 3, text |-> SpanEnterLit \o <<"f">> \o FileSuffixLit \o <<"m">>],
      [idx |-> 4, text |-> SpanExitLit \o <<"f">>],
      [idx |-> 6, text |-> SpanExitLit],
      [idx |-> 7, text |-> <<"h","i">>],
      [idx |-> 15, text |-> SpanEnterLit \o <<"f","(">>],
      [idx |-> 16, text |-> <<" ">>] }

\* The host calls process on the bytes of one whole record of ScopeRecords.
ProcessLine ==
    \E r \in ScopeRecords :
        /\ emitted < MaxLines
        /\ process_enter(Encode(Frame(r.idx, r.text, emitted + 1)))
        /\ emitted' = emitted + 1
        /\ wire' = wire

NextScope ==
    \/ ProcessLine
    \/ StepFrame
    \/ StepEof
    \/ ProcessReturn

SpecScope == Init /\ [][NextScope]_vars

\* ------------------------------------------------------- construction

\* Before TraceDecoder::new has been called there is no decoder.
NotConstructed ==
    [ok |-> FALSE, err |-> "", msg |-> "", table |-> FALSE, locations |-> FALSE,
     elf_data |-> GoodElf]

InitNew ==
    /\ wire = <<>>
    /\ emitted = 0
    /\ stream_decoder = NoDecoder
    /\ decoder = NoDecoder
    /\ span_stack = <<>>
    /\ pc = "start"
    /\ ret = "none"
    /\ sink = <<>>
    /\ stderr = <<>>
    /\ last = NoLast
    /\ call = NewCall
    /\ lost = {}
    /\ handled = <<>>
    /\ fed = <<>>
    /\ trace_decoder = NotConstructed
    /\ device = NoDevice
    /\ stdin = <<>>

\* The host calls TraceDecoder::new on an image; an Err ends the start-up.
New ==
    \E elf_data \in ElfImages :
        /\ pc = "start"
        /\ trace_decoder' = TraceDecoderNew(elf_data)
        /\ pc' = IF trace_decoder'.ok THEN "built" ELSE "failed"
        /\ UNCHANGED <<wire, emitted, stream_decoder, decoder, span_stack, ret,
                       sink, stderr, last, call, lost, handled, fed, device, stdin>>

\* The host calls new_stream on the TraceDecoder it was given.
NewStream ==
    /\ pc = "built"
    /\ trace_decoder.ok
    /\ stream_decoder' = NewStreamDecoder
    /\ span_stack' = <<>>
    /\ pc' = "idle"
    /\ UNCHANGED <<wire, emitted, decoder, ret, sink, stderr, last, call, lost,
                   handled, fed, trace_decoder,
                   device, stdin>>

NextNew ==
    \/ New
    \/ NewStream
    \/ ProcessRecord
    \/ StepFrame
    \/ StepEof
    \/ ProcessReturn

SpecNew == InitNew /\ [][NextNew]_vars

\* ---------------------------------------------------------- the producer

RECURSIVE FmtArgs(_, _)
\* The part of the format string #[instrument] builds from the arguments it
\* does not skip: "(" before the first, ", " before the others, then the
\* argument's name and "={}".
FmtArgs(arg_names, first) ==
    IF arg_names = <<>> THEN <<>>
    ELSE (IF first THEN <<"(">> ELSE <<",", " ">>)
            \o Head(arg_names) \o <<"=", "{", "}">>
            \o FmtArgs(Tail(arg_names), FALSE)

\* fmt_str of #[instrument]: the name, the arguments, ")" when there are any.
instrument_fmt_str(name, arg_names) ==
    name \o FmtArgs(arg_names, TRUE) \o (IF arg_names # <<>> THEN <<")">> ELSE <<>>)

\* The format string of the record the guard of #[instrument] logs on drop.
InstrumentExitStr == <<"e","x","i","t">>

RECURSIVE Format(_, _)
\* The text of a record: its format string with each "{}" replaced by the
\* next argument.
Format(fmt, values) ==
    IF fmt = <<>> THEN <<>>
    ELSE IF Len(fmt) >= 2 /\ fmt[1] = "{" /\ fmt[2] = "}"
    THEN Head(values) \o Format(SubSeq(fmt, 3, Len(fmt)), Tail(values))
    ELSE <<fmt[1]>> \o Format(Tail(fmt), values)

StartingText ==
    <<"S","t","a","r","t","i","n","g"," ","a","p","p","l","i","c",
      "a","t","i","o","n",".",".",".">>

VerboseText ==
    <<"V","e","r","y"," ","v","e","r","b","o","s","e"," ","i","n",
      "f","o"," ","f","r","o","m"," ","n","e","s","t","e","d"," ",
      "c","a","l","l">>

ErrorText ==
    <<"A","n"," ","e","r","r","o","r"," ","o","c","c","u","r","r",
      "e","d"," ","(","s","i","m","u","l","a","t","e","d",")">>

\* The records examples/basic.rs emits, in order: main logs, calls
\* my_function(10, 20), which logs, calls nested_call(30) and logs; every
\* instrumented function logs its format string on entry and "exit" when
\* its guard is dropped.
BasicRecords ==
    << [idx |-> 41, text |-> StartingText],
       [idx |-> 42, text |-> Format(instrument_fmt_str(MyFunctionName,
                                        << <<"x">>, <<"y">> >>),
                                    << <<"1","0">>, <<"2","0">> >>)],
       [idx |-> 43, text |-> EnteredText],
       [idx |-> 44, text |-> Format(instrument_fmt_str(NestedCallName,
                                        << <<"v","a","l","u","e">> >>),
                                    << <<"3","0">> >>)],
       [idx |-> 45, text |-> InsideText],
       [idx |-> 46, text |-> VerboseText],
       [idx |-> 47, text |-> Format(InstrumentExitStr, <<>>)],
       [idx |-> 48, text |-> WarningText],
       [idx |-> 49, text |-> Format(InstrumentExitStr, <<>>)],
       [idx |-> 50, text |-> ErrorText] >>

\* The format indices of the entry records and of the exit records.
BasicEntryIdx == {42, 44}

BasicExitIdx == {47, 49}

\* The wire holds what examples/basic.rs emits; a fresh TraceStream reads it.
InitBasic ==
    /\ wire = EncodeAll(BasicRecords, 0)
    /\ emitted = Len(BasicRecords)
    /\ new_stream
    /\ decoder = NoDecoder
    /\ pc = "idle"
    /\ ret = "none"
    /\ sink = <<>>
    /\ stderr = <<>>
    /\ last = NoLast
    /\ call = NewCall
    /\ lost = {}
    /\ handled = <<>>
    /\ fed = <<>>
    /\ trace_decoder = TraceDecoderNew(GoodElf)
    /\ device = NoDevice
    /\ stdin = <<>>

SpecBasic == InitBasic /\ [][NextE2E]_vars

\* ------------------------------------------- the instrumented program

\* The instrumented functions of the device program: those of
\* examples/basic.rs, and one that returns early.
DeviceFns == {"my_function", "nested_call", "early_exit"}

EarlyExitName == <<"e","a","r","l","y","_","e","x","i","t">>

\* The body of an instrumented function, statement by statement: a log, a
\* call of an instrumented function, a return the function takes or not.
Body(f) ==
    CASE f = "nested_call" ->
            << [op |-> "log", text |-> InsideText, fn |-> ""],
               [op |-> "log", text |-> VerboseText, fn |-> ""] >>
      [] f = "my_function" ->
            << [op |-> "log", text |-> EnteredText, fn |-> ""],
               [op |-> "call", text |-> <<>>, fn |-> "nested_call"],
               [op |-> "log", text |-> WarningText, fn |-> ""] >>
      [] f = "early_exit" ->
            << [op |-> "log", text |-> <<"a">>, fn |-> ""],
               [op |-> "return_if", text |-> <<>>, fn |-> ""],
               [op |-> "call", text |-> <<>>, fn |-> "nested_call"],
               [op |-> "log", text |-> <<"b">>, fn |-> ""] >>

\* The text of the record the expansion logs first: fmt_str with the
\* arguments of the call.
EntryText(f) ==
    CASE f = "nested_call" ->
            Format(instrument_fmt_str(NestedCallName, << <<"v","a","l","u","e">> >>),
                   << <<"3","0">> >>)
      [] f = "my_function" ->
            Format(instrument_fmt_str(MyFunctionName, << <<"x">>, <<"y">> >>),
                   << <<"1","0">>, <<"2","0">> >>)
      [] f = "early_exit" ->
            Format(instrument_fmt_str(EarlyExitName, <<>>), <<>>)

\* A record the device has logged; act (a ghost) is the call it belongs to
\* and parent the call that made that call, 0 for the main program.
DeviceRecord(kind, act, parent, text) ==
    [kind |-> kind, act |-> act, parent |-> parent, text |-> text]

\* The expanded function is entered: it logs fmt_str, creates its guard and
\* goes on to its body.
instrument_entry(dev, f) ==
    LET act == dev.acts + 1
        parent == IF dev.stack = <<>> THEN 0 ELSE dev.stack[Len(dev.stack)].act
    IN  [stack |-> Append(dev.stack, [fn |-> f, pc |-> 1, act |-> act]),
         acts |-> act,
         log |-> Append(dev.log, DeviceRecord("entry", act, parent, EntryText(f)))]

\* The caller goes on behind the call that has returned.
Unwound(stack) ==
    LET rest == SubSeq(stack, 1, Len(stack) - 1)
    IN  IF rest = <<>> THEN rest
        ELSE [rest EXCEPT ![Len(rest)].pc = @ + 1]

\* A function that leaves without its guard logging anything.
instrument_leave_silent(dev) ==
    [dev EXCEPT !.stack = Unwound(@)]

\* The expanded function is left: _guard goes out of scope and its Drop
\* logs "exit".
instrument_leave(dev) ==
    LET top == dev.stack[Len(dev.stack)]
        parent == IF Len(dev.stack) = 1 THEN 0 ELSE dev.stack[Len(dev.stack) - 1].act
    IN  [dev EXCEPT !.stack = Unwound(@),
                    !.log = Append(@, DeviceRecord("exit", top.act, parent,
                                                   Format(InstrumentExitStr, <<>>)))]

host_vars == <<wire, emitted, stream_decoder, decoder, span_stack, pc, ret,
               sink, stderr, last, call, lost, handled, fed, trace_decoder>>

\* The statement the function on top of the call stack is at.
AtStatement(op) ==
    /\ device.stack # <<>>
    /\ LET top == device.stack[Len(device.stack)]
       IN  /\ top.pc <= Len(Body(top.fn))
           /\ Body(top.fn)[top.pc].op = op

\* The main program calls an instrumented function.
DeviceMainCall ==
    \E f \in DeviceFns :
        /\ device.stack = <<>>
        /\ device.acts < MaxCalls
        /\ device' = instrument_entry(device, f)
        /\ UNCHANGED <<host_vars, stdin>>

\* An instrumented function calls another.
DeviceCall ==
    /\ AtStatement("call")
    /\ device.acts < MaxCalls
    /\ LET top == device.stack[Len(device.stack)]
       IN  device' = instrument_entry(device, Body(top.fn)[top.pc].fn)
    /\ UNCHANGED <<host_vars, stdin>>

\* The body logs a record.
DeviceLog ==
    /\ AtStatement("log")
    /\ LET top == device.stack[Len(device.stack)]
       IN  device' = [device EXCEPT
              !.stack[Len(device.stack)].pc = @ + 1,
              !.log = Append(@, DeviceRecord("body", top.act, 0,
                                             Body(top.fn)[top.pc].text))]
    /\ UNCHANGED <<host_vars, stdin>>

\* The body returns early: the guard is dropped on this path too.
DeviceEarlyReturn ==
    /\ AtStatement("return_if")
    /\ device' = instrument_leave(device)
    /\ UNCHANGED <<host_vars, stdin>>

\* The body does not take the early return.
DeviceContinue ==
    /\ AtStatement("return_if")
    /\ device' = [device EXCEPT !.stack[Len(device.stack)].pc = @ + 1]
    /\ UNCHANGED <<host_vars, stdin>>

\* The body has run to its end.
DeviceEndOfBody ==
    /\ device.stack # <<>>
    /\ LET top == device.stack[Len(device.stack)]
       IN  top.pc > Len(Body(top.fn))
    /\ device' = instrument_leave(device)
    /\ UNCHANGED <<host_vars, stdin>>

NextDevice ==
    \/ DeviceMainCall
    \/ DeviceCall
    \/ DeviceLog
    \/ DeviceEarlyReturn
    \/ DeviceContinue
    \/ DeviceEndOfBody

SpecDevice == Init /\ [][NextDevice]_vars

\* ------------------------------- the recursive reconstructor on its own

\* A main that scans on behind an exit line read with no scope open.
main_rescan(lines) ==
    LET first == process_scope(lines, <<>>, NoSpan)
    IN  IF first.exit THEN process_scope(first.lines, first.out, NoSpan)
        ELSE first

\* main of examples/host_trace_reconstructor.rs (process_logs of
\* tests/reconstruction.rs): one call of process_scope on the lines of the
\* input, with no span entered; then the subscriber is shut down.
main(lines) == process_scope(lines, <<>>, NoSpan)

\* The lines of the input: the texts of ScopeRecords and two more enter
\* lines, with an empty pair of parentheses and with nothing but "(".
StdinLines ==
    {r.text : r \in ScopeRecords}
        \cup {SpanEnterLit \o <<"g","(",")">>, SpanEnterLit \o <<"(">>}

\* The branch of process_scope a line takes.
LineKind(text) ==
    LET line == Trim(text)
    IN  IF line = <<>> THEN "blank"
        ELSE IF Find(line, SpanEnterLit).some THEN "enter"
        ELSE IF Find(line, SpanExitLit).some THEN "exit"
        ELSE "log"

\* One more line arrives on the input before main scans it.
StdinLine ==
    \E text \in StdinLines :
        /\ Len(stdin) < MaxStdin
        /\ stdin' = Append(stdin, text)
        /\ UNCHANGED <<host_vars, device>>

NextStdin == StdinLine

SpecStdin == Init /\ [][NextStdin]_vars

\* ------------------------------------- a malformed sequence comes first

\* A frame the malformed sequence may hold behind its bad bytes.
StrayFrame == Frame(7, <<"h","i">>, 0)

\* Malformed byte sequences: a bad frame with its delimiter, alone, with
\* bytes behind it, with a whole record behind it; and bad bytes that no
\* delimiter ends.
MalformedInputs ==
    { <<BadByte, ZeroByte>>,
      <<BadByte, ZeroByte, BadByte>>,
      <<BadByte, ZeroByte>> \o Encode(StrayFrame),
      <<BadByte>>,
      <<BadByte, BodyByte(StrayFrame)>> }

\* The host calls process on bytes that are not the encoding of a record.
ProcessBytes ==
    \E data \in MalformedInputs :
        /\ emitted < MaxFrames
        /\ process_enter(data)
        /\ emitted' = emitted + 1
        /\ wire' = wire

NextAny ==
    \/ ProcessRecord
    \/ ProcessBytes
    \/ StepFrame
    \/ StepEof
    \/ StepMalformed
    \/ ProcessReturn

SpecAny == Init /\ [][NextAny]_vars

\* The first process call of the stream's life, on a malformed sequence.
ProcessMalformed ==
    \E data \in MalformedInputs :
        /\ ret = "none"
        /\ process_enter(data)
        /\ UNCHANGED <<wire, emitted>>

\* The later process calls, on the well-formed bytes of the wire.
ProcessWellFormed ==
    /\ ret # "none"
    /\ ProcessCall

\* The device writes a record of the well-formed sequence.
EmitWellFormed ==
    /\ emitted < MaxWellFormed
    /\ Emit

NextResync ==
    \/ EmitWellFormed
    \/ ProcessMalformed
    \/ ProcessWellFormed
    \/ StepFrame
    \/ StepEof
    \/ StepMalformed
    \/ ProcessReturn

SpecResync == Init /\ [][NextResync]_vars

\* ------------------------------------------------------- the properties

Top(stack) == IF stack = <<>> THEN NoSpan ELSE stack[Len(stack)]

\* The spans the subscriber has seen begin and not end, after the calls s.
OpenIds(s) ==
    {s[i].id : i \in {j \in DOMAIN s : s[j].op = "begin"}}
        \ {s[i].id : i \in {j \in DOMAIN s : s[j].op = "end"}}

\* The most recently begun of a set of spans (ids are handed out in order).
Newest(ids) == CHOOSE i \in ids : \A j \in ids : j <= i

CountKind(h, kind) == Cardinality({i \in DOMAIN h : h[i].kind = kind})

\* Every exit directive of h has an unmatched enter directive before it.
WellNested(h) ==
    \A i \in DOMAIN h :
        h[i].kind = "exit" =>
            CountKind(SubSeq(h, 1, i - 1), "enter") > CountKind(SubSeq(h, 1, i - 1), "exit")

\* C1: when every exit record handled so far had an unmatched enter before
\* it, every end the subscriber received closed the newest span that was
\* still open at that moment, and once as many exits as enters have been
\* handled the span stack is empty and no span is open.
C1_NestingCorrect ==
    WellNested(handled) =>
        /\ \A i \in DOMAIN sink :
              sink[i].op = "end" =>
                 LET open == OpenIds(SubSeq(sink, 1, i - 1))
                 IN  open # {} /\ sink[i].id = Newest(open)
        /\ CountKind(handled, "enter") = CountKind(handled, "exit") =>
              span_stack = <<>> /\ OpenIds(sink) = {}

\* C1 witness: two nested spans were opened and both closed again.
C1_Witness ==
    /\ WellNested(handled)
    /\ Len(handled) >= 4
    /\ handled[1].kind = "enter"
    /\ handled[2].kind = "enter"
    /\ handled[3].kind = "exit"
    /\ handled[4].kind = "exit"
    /\ span_stack = <<>>

\* C2: a plain log handled with N >= 1 spans on the stack is recorded as an
\* event of the Nth (top) span, one handled with an empty stack as an event
\* of no span; the stack is as it was.
C2_LogParent ==
    last.kind = "log" =>
        /\ Len(sink) = last.sinkBefore + 1
        /\ sink[Len(sink)].op = "event"
        /\ sink[Len(sink)].name = last.text
        /\ sink[Len(sink)].parent =
              (IF Len(last.before) >= 1 THEN last.before[Len(last.before)] ELSE NoSpan)
        /\ span_stack = last.before

\* C2 witness: a log was handled with two spans open.
C2_Witness ==
    /\ last.kind = "log"
    /\ Len(last.before) = 2
    /\ sink[Len(sink)].parent = last.before[2]

\* C3: an enter directive begins a span whose parent is the span that was on
\* top of the stack (none if the stack was empty), and the new span is then
\* the top of the stack, above the spans that were there.
C3_EnterParent ==
    last.kind = "enter" =>
        /\ Len(sink) = last.sinkBefore + 1
        /\ sink[Len(sink)].op = "begin"
        /\ sink[Len(sink)].parent =
              (IF last.before = <<>> THEN NoSpan ELSE last.before[Len(last.before)])
        /\ \A i \in DOMAIN last.before : last.before[i] # sink[Len(sink)].id
        /\ span_stack = Append(last.before, sink[Len(sink)].id)

\* C3 witness: an enter was handled inside an open span.
C3_Witness ==
    /\ last.kind = "enter"
    /\ Len(last.before) >= 1
    /\ sink[Len(sink)].parent = Top(last.before)
    /\ Top(span_stack) = sink[Len(sink)].id

\* What the subscriber is to see for the scenario: op, span id, parent, text.
ScenarioCalls ==
    << <<"begin", 1, NoSpan, MyFunctionCall>>,
       <<"event", NoSpan, 1, EnteredText>>,
       <<"begin", 2, 1, NestedCallCall>>,
       <<"event", NoSpan, 2, InsideText>>,
       <<"end", 2, NoSpan, <<>> >>,
       <<"event", NoSpan, 1, WarningText>>,
       <<"end", 1, NoSpan, <<>> >> >>

SeenCalls == [i \in DOMAIN sink |->
                 <<sink[i].op, sink[i].id, sink[i].parent, sink[i].name>>]

ScenarioDone ==
    pc = "idle" /\ wire = <<>> /\ stream_decoder.some /\ stream_decoder.raw = <<>>

\* C4: on the scenario the subscriber sees, in this order, my_function begin
\* as a root, a log in it, nested_call begin under it, a log in nested_call,
\* nested_call end, a log in my_function, my_function end; when the input is
\* used up the stack is empty and no span is open.
C4_Scenario ==
    /\ Len(sink) <= Len(ScenarioCalls)
    /\ SeenCalls = SubSeq(ScenarioCalls, 1, Len(sink))
    /\ ScenarioDone => /\ SeenCalls = ScenarioCalls
                       /\ span_stack = <<>>
                       /\ OpenIds(sink) = {}

\* C4 witness: the whole scenario has been processed.
C4_Witness == ScenarioDone /\ Len(sink) = Len(ScenarioCalls) /\ Len(handled) = Len(ScenarioRecords)

\* needle occurs somewhere in hay.
Occurs(needle, hay) ==
    \E i \in 1..(Len(hay) + 1) : \E j \in (i - 1)..Len(hay) : SubSeq(hay, i, j) = needle

\* hay begins with needle.
StartsWith(hay, needle) ==
    Len(hay) >= Len(needle) /\ SubSeq(hay, 1, Len(needle)) = needle

\* C5 as claimed: a record is an enter directive exactly when its text
\* begins with "span_enter: ", an exit directive exactly when it begins with
\* "span_exit: ", and a plain log in every other case.
C5_PrefixClassification ==
    last.kind # "none" =>
        /\ last.kind = "enter" <=> StartsWith(last.text, SpanEnterLit)
        /\ last.kind = "exit" <=> StartsWith(last.text, SpanExitLit)
        /\ last.kind = "log" <=> (~StartsWith(last.text, SpanEnterLit)
                                    /\ ~StartsWith(last.text, SpanExitLit))

\* C5 as amended: a record is an enter directive exactly when its text
\* contains "span_enter: " anywhere, an exit directive exactly when it
\* contains "span_exit: " and not "span_enter: ", and a plain log exactly
\* when it contains neither.
C5_SubstringClassification ==
    last.kind # "none" =>
        /\ last.kind = "enter" <=> Occurs(SpanEnterLit, last.text)
        /\ last.kind = "exit" <=> (~Occurs(SpanEnterLit, last.text)
                                     /\ Occurs(SpanExitLit, last.text))
        /\ last.kind = "log" <=> (~Occurs(SpanEnterLit, last.text)
                                    /\ ~Occurs(SpanExitLit, last.text))

\* C5 witness: a text with the enter sentinel after other characters was
\* handled as an enter directive and opened a span.
C5_Witness ==
    /\ last.kind = "enter"
    /\ ~StartsWith(last.text, SpanEnterLit)
    /\ ~Occurs(SpanExitLit, last.text)
    /\ Len(span_stack) = Len(last.before) + 1

\* C6: an exit directive handled with an empty span stack leaves the stack
\* empty, ends no span, writes nothing, reaches no panic, and returns to the
\* loop with the decoder past that frame, so that the records behind it in
\* the same call are decoded and handled next.
C6_EmptyExitNoOp ==
    /\ [](pc # "panic")
    /\ [][(/\ pc = "loop"
            /\ Decode(decoder).kind = "Ok"
            /\ span_stack = <<>>
            /\ handled' # handled
            /\ last'.kind = "exit")
             => (/\ span_stack' = <<>>
                 /\ sink' = sink
                 /\ stderr' = stderr
                 /\ ret' = ret
                 /\ pc' = "loop"
                 /\ decoder' = Decode(decoder).rest)]_vars

\* C6 witness: in one process call an exit was handled on an empty stack and
\* the two records behind it were handled after it, opening a span and
\* logging into it.
C6_Witness ==
    /\ Len(call.trace) = 3
    /\ call.trace[1] = [kind |-> "exit", depth |-> 0]
    /\ call.trace[2] = [kind |-> "enter", depth |-> 0]
    /\ call.trace[3] = [kind |-> "log", depth |-> 1]
    /\ Len(span_stack) = 1
    /\ sink[Len(sink)].parent = span_stack[1]
    /\ pc = "idle"
    /\ ret = "Ok"

\* C7: an exit directive handled with a non-empty stack removes exactly the
\* top span and ends it, whatever its payload; the spans below stay.
C7_ExitIgnoresName ==
    (last.kind = "exit" /\ last.before # <<>>) =>
        /\ span_stack = SubSeq(last.before, 1, Len(last.before) - 1)
        /\ Len(sink) = last.sinkBefore + 1
        /\ sink[Len(sink)].op = "end"
        /\ sink[Len(sink)].id = last.before[Len(last.before)]

\* C7 witness: with two spans open, an exit whose payload is not the name of
\* the top span (but that of the span below) closed the top span.
C7_Witness ==
    /\ last.kind = "exit"
    /\ Len(last.before) = 2
    /\ last.rest # SpanName(sink, last.before[2])
    /\ last.rest = SpanName(sink, last.before[1])
    /\ span_stack = <<last.before[1]>>
    /\ sink[Len(sink)].id = last.before[2]

\* C8: process never panics and never returns an error: every finished call
\* returned Ok(()), also one that met Malformed, and between calls the stream
\* holds a decoder, so it can be called again.
C8_ProcessOk ==
    /\ pc # "panic"
    /\ ret \in {"none", "pending", "Ok"}
    /\ pc = "idle" => /\ ret \in {"none", "Ok"}
                      /\ stream_decoder.some
    /\ (pc = "idle" /\ call.malformed) => ret = "Ok"

\* C8 witness: after a call that met Malformed, a later call handled a record
\* and returned Ok.
C8_Witness ==
    /\ \E i \in DOMAIN stderr : stderr[i] = MalformedDiag
    /\ ~call.malformed
    /\ call.trace # <<>>
    /\ pc = "idle"
    /\ ret = "Ok"

\* C9: once a process call has met Malformed, its decoder is a new one with
\* nothing buffered (and that is the decoder the stream holds after the
\* return), no further record is handled in that call, and no record that
\* was buffered in a discarded decoder is ever handled.
C9_Resync ==
    /\ call.malformed =>
          /\ pc \in {"break", "idle"}
          /\ pc = "break" => decoder = NewStreamDecoder
          /\ pc = "idle" => stream_decoder = NewStreamDecoder
          /\ Len(handled) = call.handledAtMalformed
    /\ \A i \in DOMAIN handled : handled[i].seq \notin lost

\* C9 witness: a record buffered behind the malformed frame was lost with it
\* and never handled, and a record emitted after it was handled by a later
\* call.
C9_Witness ==
    /\ ~call.malformed
    /\ \E l \in lost : \E i \in DOMAIN handled :
          /\ handled[i].seq > l
          /\ \A k \in DOMAIN handled : handled[k].seq # l
          /\ \E m \in lost : m < l

\* C10: from the moment Malformed is reported until the call has returned,
\* the span stack is the one of that moment and the subscriber has received
\* no further call: the recovery ends no span.
C10_StackUntouched ==
    call.malformed =>
        /\ span_stack = call.stackAtMalformed
        /\ Len(sink) = call.sinkAtMalformed

\* C10 witness: a call that met Malformed with two spans open has returned.
C10_Witness ==
    /\ call.malformed
    /\ pc = "idle"
    /\ Len(span_stack) = 2
    /\ OpenIds(sink) = {span_stack[1], span_stack[2]}

\* The bytes of the emitted records among bytes: the well-formed sequence.
RECURSIVE WellFormedPart(_)
WellFormedPart(bytes) ==
    IF bytes = <<>> THEN <<>>
    ELSE IF Head(bytes).b = "body" /\ Head(bytes).frame.seq >= 1
    THEN Encode(Head(bytes).frame) \o WellFormedPart(Tail(bytes))
    ELSE WellFormedPart(Tail(bytes))

\* The stream has read the malformed sequence and then all the wire, and
\* every record emitted is whole.
ResyncDone ==
    /\ pc = "idle"
    /\ ret = "Ok"
    /\ wire = <<>>
    /\ emitted >= 1

\* The first frame the decoder cuts from the bytes fed is malformed and holds
\* no byte of an emitted record: the malformed sequence had a delimiter, and
\* the call that was given it met Malformed.
MalformedDelimited ==
    LET r == Decode(Received(NewStreamDecoder, fed))
        cut == SubSeq(fed, 1, Len(fed) - Len(r.rest.raw))
    IN  /\ r.kind = "Malformed"
        /\ FrameSeqs(cut) \subseteq {0}

\* C11 as stated: after a malformed sequence in the first call and a
\* well-formed sequence in later calls, the begin/end/event calls and the
\* span stack are those of a fresh stream given the well-formed sequence
\* alone. A malformed sequence without a delimiter breaks it.
C11_ResyncIdempotent ==
    ResyncDone =>
        LET alone == FreshProcess(WellFormedPart(fed)).st
        IN  /\ sink = alone.sink
            /\ span_stack = alone.span_stack

\* C11, amended: the same equality when the malformed sequence holds a frame
\* delimiter, so that the first call itself meets Malformed and resets the
\* decoder before any well-formed byte arrives.
C11_ResyncAfterDelimiter ==
    (ResyncDone /\ MalformedDelimited) =>
        LET alone == FreshProcess(WellFormedPart(fed)).st
        IN  /\ sink = alone.sink
            /\ span_stack = alone.span_stack
            /\ lost \subseteq {0}

\* C11 witness: a malformed sequence with bytes behind its delimiter was
\* fed first, then an enter, a log and an exit, all of them handled.
C11_Witness ==
    /\ ResyncDone
    /\ MalformedDelimited
    /\ Len(fed) >= 3 /\ fed[3].b # "zero"
    /\ Len(sink) >= 3
    /\ \E i, j, k \in DOMAIN sink :
          /\ i < j /\ j < k
          /\ sink[i].op = "begin" /\ sink[j].op = "event" /\ sink[k].op = "end"

\* The frame delimiters among bytes.
Zeros(bytes) == Cardinality({i \in DOMAIN bytes : bytes[i].b = "zero"})

\* The seq tags of the records that are whole in bytes: a body between the
\* start or a delimiter and a delimiter.
CompleteSeqs(bytes) ==
    {bytes[i].frame.seq : i \in {j \in DOMAIN bytes :
        /\ bytes[j].b = "body"
        /\ j = 1 \/ bytes[j - 1].b = "zero"
        /\ j < Len(bytes) /\ bytes[j + 1].b = "zero"}}

HandledSeqs == {handled[i].seq : i \in DOMAIN handled}

\* A process call has returned.
Returned == pc = "idle" /\ ret = "Ok"

\* C12 as stated: when process returns, every record that is whole in the
\* bytes received so far has been handled. A whole record buffered behind a
\* malformed frame breaks it.
C12_AllCompleteHandled ==
    Returned => CompleteSeqs(fed) \subseteq HandledSeqs

\* C12, amended: when process returns, the decoder holds no complete frame
\* (the loop ran until UnexpectedEof, or Malformed reset the decoder); every
\* record whole in the bytes received so far has been handled or was in a
\* decoder that a Malformed discarded; records are handled in arrival order,
\* once each; and every decode step that does not end the loop consumes a
\* delimiter (the frames a call has handled and the delimiters it still
\* holds never exceed the delimiters received), so that a call takes at most
\* one step more than there are delimiters buffered.
C12_Drains ==
    /\ (pc \in {"idle", "break"}) =>
          /\ Zeros(IF pc = "idle" THEN stream_decoder.raw ELSE decoder.raw) = 0
          /\ call.malformed \/ pc = "idle" \/ Decode(decoder).kind = "UnexpectedEof"
    /\ Returned => CompleteSeqs(fed) \subseteq (HandledSeqs \cup lost)
    /\ \A i, j \in DOMAIN handled : i < j => handled[i].seq < handled[j].seq
    /\ pc = "loop" => Len(handled) + Zeros(decoder.raw) <= Zeros(fed)
    /\ Len(call.trace) + Zeros(decoder.raw) <= Zeros(fed)

\* C12 witness: one call handled three records and returned with the body
\* of a fourth still buffered, waiting for its delimiter.
C12_Witness ==
    /\ Returned
    /\ ~call.malformed
    /\ Len(call.trace) = 3
    /\ stream_decoder.raw # <<>>
    /\ FrameSeqs(stream_decoder.raw) # {}
\* No byte fed so far is corrupt: the stream is well-formed up to here.
WellFormedSoFar == \A i \in DOMAIN fed : fed[i].b # "bad"

\* C13 as stated: however the byte stream was split into process calls, the
\* calls to the subscriber and the span stack are those of a single process
\* call on the whole stream. A stream with a malformed frame breaks it: the
\* records behind the frame are lost or handled depending on the split.
C13_ChunkingIndependent ==
    Returned =>
        LET whole == FreshProcess(fed).st
        IN  /\ sink = whole.sink
            /\ span_stack = whole.span_stack

\* C13, amended: for a well-formed byte stream, every split into process
\* calls gives the calls and the span stack of a single call on the whole
\* stream; a record is never handled before its last byte has been fed, and
\* when a call returns the records handled are exactly the records whole in
\* the bytes fed, once each and in order.
C13_WellFormedChunking ==
    WellFormedSoFar =>
        /\ HandledSeqs \subseteq CompleteSeqs(fed)
        /\ \A i, j \in DOMAIN handled : i < j => handled[i].seq < handled[j].seq
        /\ Returned =>
              LET whole == FreshProcess(fed).st
              IN  /\ sink = whole.sink
                  /\ span_stack = whole.span_stack
                  /\ stderr = whole.stderr
                  /\ HandledSeqs = CompleteSeqs(fed)
                  /\ AfterFrames(FreshStream, HandledFrames) = whole

\* C13 witness: the last call was given one byte, the delimiter of a record
\* whose body an earlier call had left buffered, and handled that record;
\* records before it were handled by earlier calls.
C13_Witness ==
    /\ WellFormedSoFar
    /\ Returned
    /\ call.data = <<ZeroByte>>
    /\ Len(call.trace) = 1
    /\ Len(handled) >= 3
    /\ span_stack # <<>>
IsBeginOrEvent(c) == c.op \in {"begin", "event"}

IsEnterOrLog(h) == h.kind \in {"enter", "log"}

\* The location attributes the subscriber was given with a call.
Attached(c) == <<c.file, c.line, c.module>>

\* C14: the spans begun and the events recorded are, in order, the enter and
\* plain-log records handled, none skipped; each carries the file, line and
\* module of the location-table entry of its record's format index when the
\* table has one, and the empty file, line 0 and the module placeholder
\* "rp_pico" when it has none; and no record makes process fail.
C14_LocationAttribution ==
    LET calls == SelectSeq(sink, IsBeginOrEvent)
        records == SelectSeq(handled, IsEnterOrLog)
    IN  /\ Len(calls) = Len(records)
        /\ \A i \in DOMAIN records :
              /\ calls[i].op = IF records[i].kind = "enter" THEN "begin" ELSE "event"
              /\ records[i].idx \in LocatedIdx =>
                    Attached(calls[i]) = <<Location(records[i].idx).file,
                                           Location(records[i].idx).line,
                                           Location(records[i].idx).module>>
              /\ records[i].idx \notin LocatedIdx =>
                    Attached(calls[i]) = <<"", 0, "rp_pico">>
        /\ pc # "panic"
        /\ ret # "Err"

\* C14 witness: an enter record with a table entry, then a plain log without
\* one and an enter record without one, each reported to the subscriber.
C14_Witness ==
    /\ Len(handled) = 3
    /\ Len(sink) = 3
    /\ handled[1].kind = "enter" /\ handled[1].idx \in LocatedIdx
    /\ sink[1].op = "begin" /\ sink[1].file = "main.rs" /\ sink[1].module = "app"
    /\ handled[2].kind = "log" /\ handled[2].idx \notin LocatedIdx
    /\ sink[2].op = "event" /\ sink[2].file = "" /\ sink[2].line = 0
    /\ handled[3].kind = "enter" /\ handled[3].idx \notin LocatedIdx
    /\ sink[3].op = "begin" /\ sink[3].module = "rp_pico"
\* name is what is left of rest when everything from the first "; file=" on
\* is removed: rest itself when "; file=" does not occur in it.
IsDisplayName(name, rest) ==
    IF Occurs(FileSuffixLit, rest)
    THEN /\ Len(name) + Len(FileSuffixLit) <= Len(rest)
         /\ SubSeq(rest, 1, Len(name)) = name
         /\ SubSeq(rest, Len(name) + 1, Len(name) + Len(FileSuffixLit)) = FileSuffixLit
         /\ ~Occurs(FileSuffixLit, SubSeq(rest, 1, Len(name) + Len(FileSuffixLit) - 1))
    ELSE name = rest

\* C15: when the frame handled last was an enter directive, the span begun
\* for it is named by the text after the sentinel, cut before the first
\* "; file=" when there is one and verbatim otherwise ("(args)" included).
C15_DisplayName ==
    last.kind = "enter" =>
        /\ Len(sink) = last.sinkBefore + 1
        /\ sink[Len(sink)].op = "begin"
        /\ IsDisplayName(sink[Len(sink)].name, last.rest)

\* C15 witness: an enter directive whose text holds "; file=" twice behind
\* "g(a)" named its span "g(a)", after one without the suffix was named
\* verbatim.
C15_Witness ==
    /\ last.kind = "enter"
    /\ last.rest = <<"g","(","a",")">> \o FileSuffixLit \o <<"m">> \o FileSuffixLit \o <<"n">>
    /\ Len(sink) = 2
    /\ sink[2].name = <<"g","(","a",")">>
    /\ sink[1].op = "begin"
    /\ sink[1].name = <<"g","(","a",")">>
    /\ handled[1].idx = 2
IsEvent(c) == c.op = "event"

IsLog(h) == h.kind = "log"

\* C16: the events the subscriber has received are, in order, the plain-log
\* records handled so far, one event each, and so are the lines on stderr;
\* event and line carry the record's rendered text unchanged. Enter and exit
\* directives add no event and no line.
C16_DualOutput ==
    LET logs == SelectSeq(handled, IsLog)
        events == SelectSeq(sink, IsEvent)
    IN  /\ Len(events) = Len(logs)
        /\ Len(stderr) = Len(logs)
        /\ \A i \in DOMAIN logs :
              /\ events[i].name = logs[i].text
              /\ stderr[i] = logs[i].text
        /\ last.kind \in {"enter", "exit"} =>
              /\ \A i \in (last.sinkBefore + 1)..Len(sink) : sink[i].op # "event"
              /\ handled # <<>> /\ ~IsLog(handled[Len(handled)])

\* C16 witness: a plain log, an enter directive and a second plain log with
\* another text were handled: two events and two lines, in that order.
C16_Witness ==
    /\ Len(handled) = 3
    /\ handled[1].kind = "log" /\ handled[2].kind = "enter" /\ handled[3].kind = "log"
    /\ handled[1].text # handled[3].text
    /\ Len(stderr) = 2
    /\ stderr = <<handled[1].text, handled[3].text>>
    /\ Len(sink) = 3
    /\ sink[1].op = "event" /\ sink[3].op = "event"
    /\ sink[1].name = stderr[1] /\ sink[3].name = stderr[2]
\* The rendered texts of the records handled so far: the lines the recursive
\* reconstructor reads.
HandledLines == [i \in DOMAIN handled |-> handled[i].text]

\* What the recursive reconstructor does with the records handled so far.
Recursive == process_scope(HandledLines, <<>>, NoSpan)

\* Scope opens, scope closes and log attributions, with names and nesting.
ScopeView(c) == [op |-> c.op, id |-> c.id, parent |-> c.parent, name |-> c.name]

\* The same without the scope names.
ShapeView(c) ==
    [op |-> c.op, id |-> c.id, parent |-> c.parent,
     text |-> IF c.op = "event" THEN c.name ELSE <<>>]

Views(calls) == [i \in DOMAIN calls |-> ScopeView(calls[i])]

Shapes(calls) == [i \in DOMAIN calls |-> ShapeView(calls[i])]

\* Every enter directive of h has been closed by an exit directive.
Balanced(h) == WellNested(h) /\ CountKind(h, "enter") = CountKind(h, "exit")

\* No text is empty, begins with whitespace or ends with it.
Trimmed(lines) ==
    \A i \in DOMAIN lines :
        lines[i] # <<>> /\ Head(lines[i]) # " " /\ lines[i][Len(lines[i])] # " "

\* No enter directive carries "(args)" or the legacy "; file=" suffix.
PlainNames(h) ==
    \A i \in DOMAIN h :
        h[i].kind = "enter" =>
            ~Occurs(<<"(">>, h[i].text) /\ ~Occurs(FileSuffixLit, h[i].text)

\* C17 as stated: for a record sequence in which every exit has an unmatched
\* enter before it, the two reconstructors make the same opens, closes and
\* log attributions with the same names and nesting. Arguments in an enter
\* text, scopes still open at the end and blank texts break it.
C17_Equivalent ==
    WellNested(handled) =>
        /\ ~Recursive.panic
        /\ Views(sink) = Views(Recursive.out)

\* C17, amended: the two agree on opens, closes, attributions, names and
\* nesting when, besides, every enter has been closed, no text is blank or
\* padded with whitespace, and no enter text carries "(args)" or "; file=";
\* and they agree on all of it but the names when every enter has been
\* closed, no text is blank or padded and the recursive one does not panic
\* on an unclosed parenthesis.
C17_EquivalentWhenPlain ==
    (Balanced(handled) /\ Trimmed(HandledLines)) =>
        /\ PlainNames(handled) =>
              /\ ~Recursive.panic
              /\ Recursive.lines = <<>>
              /\ Views(sink) = Views(Recursive.out)
        /\ ~Recursive.panic => Shapes(sink) = Shapes(Recursive.out)

\* C17 witness: two nested scopes with plain names, a log in the inner one
\* and both exits: five records on which the two reconstructors agree.
C17_Witness ==
    /\ Len(handled) = 5
    /\ Balanced(handled) /\ Trimmed(HandledLines) /\ PlainNames(handled)
    /\ handled[1].kind = "enter" /\ handled[2].kind = "enter"
    /\ handled[3].kind = "log"
    /\ Len(sink) = 5
    /\ sink[3].parent = sink[2].id
    /\ Views(sink) = Views(Recursive.out)
    /\ span_stack = <<>>
\* The slice handle_frame took behind a sentinel began inside the text: the
\* text holds the sentinel at some index and rest is what follows it.
SliceInRange(text, lit, rest) ==
    \E k \in 0..(Len(text) - Len(lit)) :
        /\ SubSeq(text, k + 1, k + Len(lit)) = lit
        /\ k + Len(lit) + Len(rest) = Len(text)
        /\ rest = SubSeq(text, k + Len(lit) + 1, Len(text))

\* C18: whatever bytes the process calls were given and whatever text the
\* frames rendered, process never panics: the decoder it unwraps is there
\* whenever a call begins, every slice behind a sentinel lies inside the
\* text, and every call that has ended returned Ok.
C18_NoAbort ==
    /\ pc \in {"idle", "loop", "break"}
    /\ pc = "idle" => stream_decoder.some
    /\ pc \in {"loop", "break"} => decoder.some /\ ~stream_decoder.some
    /\ ret \in {"none", "pending", "Ok"}
    /\ last.kind = "enter" => SliceInRange(last.text, SpanEnterLit, last.rest)
    /\ last.kind = "exit" => SliceInRange(last.text, SpanExitLit, last.rest)
    /\ trace_decoder.ok

\* C18 witness: after a call on malformed bytes, a call on an exit directive
\* that is nothing but its sentinel has returned Ok with the stack empty, and
\* another call has begun.
C18_Witness ==
    /\ pc = "loop"
    /\ Len(stderr) >= 1 /\ stderr[1] = MalformedDiag
    /\ last.kind = "exit"
    /\ last.text = SpanExitLit
    /\ last.rest = <<>>
    /\ last.before = <<>>
    /\ emitted = 3
\* C19 as stated: the record an instrumented function emits on entry begins
\* with "span_enter: " and is handled as an enter directive, the record it
\* emits on exit begins with "span_exit: " and is handled as an exit
\* directive, and once the whole output of the program has been handled one
\* scope per call has been opened and closed. The records of #[instrument]
\* carry no sentinel, and this fails.
C19_ProducerConvention ==
    /\ \A i \in DOMAIN handled :
          /\ handled[i].idx \in BasicEntryIdx =>
                StartsWith(handled[i].text, SpanEnterLit) /\ handled[i].kind = "enter"
          /\ handled[i].idx \in BasicExitIdx =>
                StartsWith(handled[i].text, SpanExitLit) /\ handled[i].kind = "exit"
    /\ Len(handled) = Len(BasicRecords) =>
          /\ Cardinality({i \in DOMAIN sink : sink[i].op = "begin"}) = 2
          /\ Cardinality({i \in DOMAIN sink : sink[i].op = "end"}) = 2

\* What happens instead: every record of the program, entry and exit records
\* included, is handled as a plain log, and no scope is ever opened.
ProducerRecordsAreLogs ==
    /\ \A i \in DOMAIN handled : handled[i].kind = "log"
    /\ \A i \in DOMAIN sink : sink[i].op = "event"
    /\ span_stack = <<>>

\* The entry record of my_function is the text the repository's test feeds
\* behind the sentinel, and no more.
ProducerEntryText == BasicRecords[2].text = MyFunctionCall
\* A TraceStream exists: new_stream has been called.
StreamExists == stream_decoder.some \/ decoder.some

\* C20: once TraceDecoder::new has returned, it returned Ok exactly when the
\* image parsed, held a table and gave its locations, and then both table
\* and locations are there; in every other case it returned Err(Error::Elf)
\* and there is no TraceDecoder, so that no TraceStream exists and no record
\* is ever handled.
C20_NewFailsAsValue ==
    pc # "start" =>
        LET elf_data == trace_decoder.elf_data
            good == elf_data.parse = "table" /\ elf_data.locs = "ok"
        IN  /\ trace_decoder.ok <=> good
            /\ trace_decoder.ok => trace_decoder.table /\ trace_decoder.locations
            /\ ~trace_decoder.ok =>
                  /\ trace_decoder.err = "Elf"
                  /\ ~trace_decoder.table /\ ~trace_decoder.locations
                  /\ pc = "failed"
                  /\ ~StreamExists
                  /\ handled = <<>> /\ sink = <<>>
            /\ StreamExists => trace_decoder.ok
            /\ elf_data.parse = "none" => trace_decoder.msg = "No defmt table found"

\* C20 witness: the image parsed and held a table, its locations could not
\* be read, and new returned Err(Error::Elf): the start-up has failed.
C20_Witness ==
    /\ pc = "failed"
    /\ trace_decoder.elf_data = [parse |-> "table", locs |-> "err"]
    /\ ~trace_decoder.ok
    /\ trace_decoder.err = "Elf"
    /\ trace_decoder.msg = "Locs"
\* The positions in the device's log of the records of one kind of a call.
Positions(kind, act) ==
    {i \in DOMAIN device.log : device.log[i].kind = kind /\ device.log[i].act = act}

\* The calls that have not returned.
Running == {device.stack[i].act : i \in DOMAIN device.stack}

\* C21: every call of an instrumented function has logged exactly one entry
\* record, before every record of its body; it has logged one exit record,
\* after every record of its body, once it has returned (at its end or
\* early) and none before; and the entry and exit records of a call lie
\* strictly between those of the call that made it.
C21_EntryBodyExitOrder ==
    \A a \in 1..device.acts :
        /\ Cardinality(Positions("entry", a)) = 1
        /\ Cardinality(Positions("exit", a)) = IF a \in Running THEN 0 ELSE 1
        /\ \A e \in Positions("entry", a) :
              /\ \A b \in Positions("body", a) : e < b
              /\ \A x \in Positions("exit", a) :
                    /\ e < x
                    /\ \A b \in Positions("body", a) : b < x
              /\ LET p == device.log[e].parent
                 IN  p # 0 =>
                        /\ \A pe \in Positions("entry", p) : pe < e
                        /\ \A px \in Positions("exit", p) :
                              \E x \in Positions("exit", a) : x < px

\* C21 witness: early_exit has returned early, one body record between its
\* entry and its exit, and my_function has returned at its end with the
\* records of nested_call inside its own.
C21_Witness ==
    /\ device.stack = <<>>
    /\ device.acts = 3
    /\ \E a \in 1..3 :
          /\ \E e \in Positions("entry", a) :
                device.log[e].text = EntryText("early_exit")
          /\ Cardinality(Positions("body", a)) = 1
          /\ Cardinality(Positions("exit", a)) = 1
    /\ \E a, c \in 1..3 :
          /\ \E e \in Positions("entry", c) : device.log[e].parent = a
          /\ \E e \in Positions("entry", a) :
                device.log[e].text = EntryText("my_function")
          /\ \E x \in Positions("exit", c) : \E px \in Positions("exit", a) : x < px
\* The lines of the input with the branch each takes.
StdinKinds == [i \in DOMAIN stdin |-> [kind |-> LineKind(stdin[i])]]

\* The enter lines that no exit line has matched.
Unclosed(h) == CountKind(h, "enter") - CountKind(h, "exit")

\* The last k calls of out close k scopes, the innermost (the one begun
\* last) first.
ClosesInnermostFirst(out, k) ==
    /\ Len(out) >= k
    /\ \A i \in (Len(out) - k + 1)..Len(out) :
          /\ out[i].op = "end"
          /\ i < Len(out) => out[i].id > out[i + 1].id

\* C22: when process_scope has returned to main, every scope it opened is
\* closed, and each close is that of the innermost scope open at that
\* moment, whether the nested scan returned on an exit line or at the end of
\* the input; when the input ends with k scopes open, the last k calls are
\* their closes, innermost first.
C22_ScopesClosedOnReturn ==
    LET r == main(stdin)
        out == r.out
    IN  /\ OpenIds(out) = {}
        /\ \A i \in DOMAIN out :
              out[i].op = "end" =>
                  out[i].id = Newest(OpenIds(SubSeq(out, 1, i - 1)))
        /\ (WellNested(StdinKinds) /\ ~r.panic) =>
              /\ r.lines = <<>>
              /\ ClosesInnermostFirst(out, Unclosed(StdinKinds))

\* C22 witness: two scopes, the inner closed by an exit line, a third scope,
\* and the input ends with two scopes open: they are closed at the end, the
\* third before the first.
C22_Witness ==
    /\ Len(stdin) = 4
    /\ LineKind(stdin[1]) = "enter" /\ LineKind(stdin[2]) = "enter"
    /\ LineKind(stdin[3]) = "exit" /\ LineKind(stdin[4]) = "enter"
    /\ ~main(stdin).panic
    /\ Len(main(stdin).out) = 6
    /\ main(stdin).out[3].op = "end" /\ main(stdin).out[3].id = main(stdin).out[2].id
    /\ main(stdin).out[5].op = "end" /\ main(stdin).out[5].id = main(stdin).out[4].id
    /\ main(stdin).out[6].op = "end" /\ main(stdin).out[6].id = main(stdin).out[1].id
\* The payload of an enter line: what follows the sentinel in the trimmed
\* line.
EnterPayload(text) ==
    LET line == Trim(text)
    IN  SliceFrom(line, Find(line, SpanEnterLit).at + Len(SpanEnterLit))

\* C23 as stated: the payload of every enter line is parsed to a result;
\* with a "(" the name is the text before the first "(" and the args are the
\* text between it and the last character of the payload, without one the
\* name is the payload and the args are empty. On a payload whose first "("
\* is its last character the slice of the args starts behind its end and
\* process_scope panics: this fails.
C23_EnterPayloadParsed ==
    /\ ~main(stdin).panic
    /\ \A i \in DOMAIN stdin :
          LineKind(stdin[i]) = "enter" =>
              LET content == EnterPayload(stdin[i])
                  idx == Find(content, <<"(">>)
                  parts == SplitCall(content)
              IN  /\ ~parts.panic
                  /\ idx.some =>
                        /\ parts.name = SubSeq(content, 1, idx.at)
                        /\ parts.args = SubSeq(content, idx.at + 2, Len(content) - 1)
                  /\ ~idx.some =>
                        /\ parts.name = content
                        /\ parts.args = <<>>
RECURSIVE Depth(_)
\* The enter directives of h less the exit directives of h that came while
\* the count was above zero.
Depth(h) ==
    IF h = <<>> THEN 0
    ELSE LET before == Depth(SubSeq(h, 1, Len(h) - 1))
             kind == h[Len(h)].kind
         IN  IF kind = "enter" THEN before + 1
             ELSE IF kind = "exit" /\ before > 0 THEN before - 1
             ELSE before

\* C24: the depth of span_stack is the number of enter directives handled
\* less the number of exit directives handled on a non-empty stack; the stack
\* holds exactly the spans begun and not ended, in the order they were
\* begun; and a step that handles a plain log, or none of the records (no
\* more data, Malformed, the return of process), leaves the stack as it was.
C24_StackAccounting ==
    /\ [](/\ Len(span_stack) = Depth(handled)
          /\ {span_stack[i] : i \in DOMAIN span_stack} = OpenIds(sink)
          /\ \A i, j \in DOMAIN span_stack : i < j => span_stack[i] < span_stack[j])
    /\ [][(handled' = handled \/ last'.kind = "log")
             => span_stack' = span_stack]_vars

\* C24 witness: an exit on the empty stack, an enter, and a call that met
\* Malformed and has returned: one span on the stack, though as many exits
\* as enters were handled.
C24_Witness ==
    /\ Len(handled) = 2
    /\ handled[1].kind = "exit" /\ handled[2].kind = "enter"
    /\ call.malformed
    /\ pc = "idle"
    /\ Len(span_stack) = 1
    /\ OpenIds(sink) = {span_stack[1]}
\* C25: the stream holds a decoder when it is created and whenever process
\* is not running; every return of process puts back the decoder the call
\* ended with, after "no more data" the one it took and after Malformed the
\* new one; and a call that begins finds a decoder to take.
C25_DecoderPresent ==
    /\ [](pc = "idle" => stream_decoder.some)
    /\ [](pc # "panic")
    /\ [][(pc = "break" /\ pc' = "idle")
             => (/\ decoder.some
                 /\ stream_decoder' = decoder
                 /\ call.malformed => stream_decoder' = NewStreamDecoder)]_vars
    /\ [][(pc = "idle" /\ pc' # "idle")
             => (/\ stream_decoder.some
                 /\ pc' = "loop"
                 /\ decoder'.some)]_vars

\* C25 witness: a call that met Malformed has returned, a call that ran out
\* of data has returned after it, and a third call has taken the decoder.
C25_Witness ==
    /\ pc = "loop"
    /\ emitted = 3
    /\ Len(stderr) >= 1 /\ stderr[1] = MalformedDiag
    /\ Len(handled) = 1
    /\ ~call.malformed
    /\ decoder.some
    /\ ~stream_decoder.some
\* Line i of the input is an exit line that the scan of main reads with no
\* scope open: every exit line before it had an unmatched enter line, every
\* enter line before it has been matched, and the scan came as far.
TopLevelExit(i) ==
    LET before == SubSeq(StdinKinds, 1, i - 1)
    IN  /\ LineKind(stdin[i]) = "exit"
        /\ WellNested(before)
        /\ Unclosed(before) = 0
        /\ ~main(SubSeq(stdin, 1, i - 1)).panic

CountOp(out, op) == Cardinality({i \in DOMAIN out : out[i].op = op})

\* C26: when the scan of main reads an exit line with no scope open,
\* process_scope returns to main, which does not call it again: the calls
\* made are those made for the lines before that exit line, one scope per
\* enter line and one event per log line among them, and the lines behind
\* the exit line stay unread.
C26_StopsAtUnbalancedExit ==
    \A i \in DOMAIN stdin :
        TopLevelExit(i) =>
            LET before == SubSeq(stdin, 1, i - 1)
                r == main(stdin)
            IN  /\ r.exit /\ ~r.panic
                /\ r.lines = SubSeq(stdin, i + 1, Len(stdin))
                /\ r.out = main(before).out
                /\ CountOp(r.out, "begin") = CountKind(SubSeq(StdinKinds, 1, i - 1), "enter")
                /\ CountOp(r.out, "event") = CountKind(SubSeq(StdinKinds, 1, i - 1), "log")

\* C26 witness: a log, an exit line with no scope open, then an enter line
\* and a log: the one event before the exit line is all that was recorded.
C26_Witness ==
    /\ Len(stdin) = 4
    /\ LineKind(stdin[1]) = "log"
    /\ TopLevelExit(2)
    /\ LineKind(stdin[3]) = "enter"
    /\ LineKind(stdin[4]) = "log"
    /\ Len(main(stdin).out) = 1
    /\ main(stdin).out[1].op = "event"
    /\ main(stdin).lines = <<stdin[3], stdin[4]>>
====
